---- MODULE Spec2Model ----
(***************************************************************************)
(* The contact form's client-side rate limiter of js/main.js: the          *)
(* submission log kept in localStorage, the decision computed from it, the *)
(* countdown timer, and the submit handler that brackets the network call. *)
(***************************************************************************)
EXTENDS Integers, Sequences, FiniteSets, TLC

VARIABLES
    localStorage,   \* the text stored under RATE_LIMIT.STORAGE_KEY (shared by all tabs)
    clock,          \* Date.now()
    page,           \* per tab: the script's variables, its timers and the DOM it writes
    last,           \* the handler that ran last, and the tab it ran in
    call,           \* the limiter function called last, its argument and what it returned
    storage,        \* whether localStorage's getItem and setItem work or throw
    advances,       \* how many times the clock has moved
    scripted        \* how many submit events scripts have dispatched

vars == <<localStorage, clock, page, last, call, storage, advances, scripted>>

\* ------------------------------------------------------------------ bounds

\* Clock movements in one behaviour.
MaxAdvances == 3
\* Length of the enumerated part of a stored array.
MaxPrefix == 2
\* Submit events dispatched by script in one behaviour.
MaxScripted == 1
\* Length of the stored array beyond which the model records no more.
MaxStored == 6
\* Clock movements in one behaviour of two tabs, or of the form with its fields.
MaxTabAdvances == 1
\* Links inside navLinks.
MaxLinks == 2

\* --------------------------------------------------------------- constants

MAX_SUBMISSIONS == 5
TIME_WINDOW == 60 * 60 * 1000
\* Period of the countdown's setInterval.
COUNTDOWN_MS == 1000
\* validationRules.message.minLength and maxLength.
MIN_LENGTH == 10
MAX_LENGTH == 2000
\* Delay of showStatus's setTimeout that clears a success message.
STATUS_CLEAR_MS == 5000

\* ---------------------------------------------------------------- JS values

\* A JavaScript value, or a JSON token, is a record [t, v]: t its type, v the
\* integer it holds when it is a finite number (0 otherwise).
Num(n) == [t |-> "number", v |-> n]
PosInf == [t |-> "Infinity", v |-> 0]
NegInf == [t |-> "-Infinity", v |-> 0]
Null == [t |-> "null", v |-> 0]
Str == [t |-> "string", v |-> 0]
Obj == [t |-> "object", v |-> 0]
\* JSON numeric literals beyond the double range, such as 1e999 and -1e999.
Overflow == [t |-> "overflow", v |-> 0]
NegOverflow == [t |-> "-overflow", v |-> 0]

\* typeof item === 'number' && !isNaN(item)
IsNumber(x) == x.t \in {"number", "Infinity", "-Infinity"}

\* A value used as a condition: null, 0 and NaN are falsy.
Truthy(x) ==
    CASE x.t = "number" -> x.v # 0
      [] x.t \in {"Infinity", "-Infinity"} -> TRUE
      [] OTHER -> FALSE

\* x + n for a number x and a finite n.
JSPlus(x, n) == IF x.t = "number" THEN Num(x.v + n) ELSE x

\* ------------------------------------------------------------- stored text

\* The stored text by what JSON.parse makes of it: kind "absent" is no entry
\* (getItem returns null), "empty" the empty string, "malformed" a text that
\* JSON.parse rejects, and otherwise the type of the parsed value, with the
\* tokens of its elements when the value is an array.
Text(kind, items) == [kind |-> kind, items |-> items]
Absent == Text("absent", <<>>)
ArrayText(items) == Text("array", items)

JSONparseItem(tok) ==
    CASE tok.t = "overflow" -> PosInf
      [] tok.t = "-overflow" -> NegInf
      [] OTHER -> tok

\* JSON.parse(stored): throws on malformed text.
JSONparse(text) ==
    IF text.kind \in {"malformed", "empty"}
    THEN [threw |-> TRUE, t |-> "undefined", items |-> <<>>]
    ELSE [threw |-> FALSE, t |-> text.kind,
          items |-> [i \in DOMAIN text.items |-> JSONparseItem(text.items[i])]]

\* JSON.stringify of an array of numbers: a finite number is written as it is,
\* Infinity and -Infinity are written as null.
JSONstringifyItem(x) == IF x.t = "number" THEN x ELSE Null

JSONstringify(submissions) ==
    ArrayText([i \in DOMAIN submissions |-> JSONstringifyItem(submissions[i])])

\* ----------------------------------------------------------- rate limiting

\* getSubmissions with its try/catch removed: a failing read or parse escapes.
getSubmissions_NoCatch(stored, readable) ==
    IF ~readable THEN [threw |-> TRUE, value |-> <<>>]
    ELSE IF stored.kind \in {"absent", "empty"} THEN [threw |-> FALSE, value |-> <<>>]
    ELSE LET parsed == JSONparse(stored) IN
         IF parsed.threw THEN [threw |-> TRUE, value |-> <<>>]
         ELSE IF parsed.t # "array" THEN [threw |-> FALSE, value |-> <<>>]
         ELSE [threw |-> FALSE, value |-> SelectSeq(parsed.items, IsNumber)]

\* getSubmissions(): the stored array's numeric elements; [] when nothing is
\* stored, when the read or the parse throws, or when the value is no array.
getSubmissions(stored, readable) ==
    IF ~readable THEN [threw |-> FALSE, value |-> <<>>]
    ELSE IF stored.kind \in {"absent", "empty"} THEN [threw |-> FALSE, value |-> <<>>]
    ELSE LET parsed == JSONparse(stored) IN
         IF parsed.threw THEN [threw |-> FALSE, value |-> <<>>]
         ELSE IF parsed.t # "array" THEN [threw |-> FALSE, value |-> <<>>]
         ELSE [threw |-> FALSE, value |-> SelectSeq(parsed.items, IsNumber)]

\* saveSubmissions with its try/catch removed: a failing write escapes.
saveSubmissions_NoCatch(stored, submissions, writable) ==
    [threw |-> ~writable,
     store |-> IF writable THEN JSONstringify(submissions) ELSE stored]

\* saveSubmissions(submissions): whether it throws, and the stored text
\* afterwards; a failing write is caught and leaves the old text.
saveSubmissions(stored, submissions, writable) ==
    [threw |-> FALSE,
     store |-> IF writable THEN JSONstringify(submissions) ELSE stored]

\* now - timestamp < RATE_LIMIT.TIME_WINDOW
InWindow(timestamp, now) ==
    CASE timestamp.t = "number" -> now - timestamp.v < TIME_WINDOW
      [] timestamp.t = "Infinity" -> TRUE
      [] OTHER -> FALSE

\* The filter with its comparison inverted: it keeps the expired entries.
cleanupOldSubmissions_Inverted(submissions, now) ==
    SelectSeq(submissions,
              LAMBDA ts : IF ts.t = "number" THEN now - ts.v >= TIME_WINDOW
                          ELSE ~InWindow(ts, now))

\* The filter with <= for <.
cleanupOldSubmissions_Inclusive(submissions, now) ==
    SelectSeq(submissions,
              LAMBDA ts : IF ts.t = "number" THEN now - ts.v <= TIME_WINDOW
                          ELSE InWindow(ts, now))

cleanupOldSubmissions(submissions, now) ==
    SelectSeq(submissions, LAMBDA ts : InWindow(ts, now))

\* The decision with allowed computed as remaining >= 0.
Decide_OffByOne(submissions) ==
    LET remaining == MAX_SUBMISSIONS - Len(submissions)
        allowed == remaining >= 0
    IN  [allowed |-> allowed, remaining |-> remaining,
         resetTime |-> IF ~allowed /\ Len(submissions) > 0
                       THEN JSPlus(submissions[1], TIME_WINDOW) ELSE Null]

\* The decision with resetTime computed whenever the pruned log has an entry.
Decide_ResetWhenever(submissions) ==
    LET remaining == MAX_SUBMISSIONS - Len(submissions)
        allowed == remaining > 0
    IN  [allowed |-> allowed, remaining |-> remaining,
         resetTime |-> IF Len(submissions) > 0
                       THEN JSPlus(submissions[1], TIME_WINDOW) ELSE Null]

\* checkRateLimit's decision from the pruned log: { allowed, remaining, resetTime }.
Decide(submissions) ==
    LET remaining == MAX_SUBMISSIONS - Len(submissions)
        allowed == remaining > 0
    IN  [allowed |-> allowed, remaining |-> remaining,
         resetTime |-> IF ~allowed /\ Len(submissions) > 0
                       THEN JSPlus(submissions[1], TIME_WINDOW) ELSE Null]

\* checkRateLimit(): load, prune, save, decide. Whether an exception leaves it,
\* the stored text it leaves, and the decision it returns.
checkRateLimit(stored, now, readable, writable) ==
    LET loaded == getSubmissions(stored, readable)
        submissions == cleanupOldSubmissions(loaded.value, now)
        saved == saveSubmissions(stored, submissions, writable)
    IN  [threw |-> loaded.threw \/ saved.threw,
         store |-> saved.store,
         decision |-> Decide(submissions)]

\* recordSubmission(): load, prune, push Date.now(), save. Whether an exception
\* leaves it, and the stored text it leaves.
recordSubmission(stored, now, readable, writable) ==
    LET loaded == getSubmissions(stored, readable)
        submissions == cleanupOldSubmissions(loaded.value, now)
        saved == saveSubmissions(stored, Append(submissions, Num(now)), writable)
    IN  [threw |-> loaded.threw \/ saved.threw, store |-> saved.store]

\* a % b as JavaScript computes it for b > 0: the sign of a.
JSMod(a, b) == IF a >= 0 THEN a % b ELSE 0 - ((0 - a) % b)

\* formatTimeRemaining with Math.round for the seconds.
formatTimeRemaining_Round(milliseconds) ==
    [minutes |-> milliseconds \div 60000,
     seconds |-> (JSMod(milliseconds, 60000) + 500) \div 1000]

\* formatTimeRemaining(milliseconds): the numbers of `${minutes}m ${seconds}s`.
formatTimeRemaining(milliseconds) ==
    [minutes |-> milliseconds \div 60000,
     seconds |-> JSMod(milliseconds, 60000) \div 1000]

\* -------------------------------------------------------------- validation

Fields == {"name", "email", "project_type", "message"}

\* validationRules: 0 stands for a length the rule does not set, pattern tells
\* whether the rule has one.
validationRules ==
    [f \in Fields |->
        IF f = "message"
        THEN [required |-> TRUE, minLength |-> MIN_LENGTH, maxLength |-> MAX_LENGTH,
              pattern |-> FALSE]
        ELSE [required |-> TRUE, minLength |-> 0, maxLength |-> 0, pattern |-> TRUE]]

\* What a field holds, by what validation and sending look at: the length of
\* the value, the length of value.trim(), and whether value.trim() matches the
\* pattern of the field's rule (FALSE for a field whose rule has none).
FieldValue(length, trimmed, matches) ==
    [length |-> length, trimmed |-> trimmed, matches |-> matches]

\* validateField(fieldName, value), on a page that has the field's error element.
validateField(fieldName, value) ==
    LET rule == validationRules[fieldName]
    IN  IF rule.required /\ value.trimmed = 0 THEN FALSE
        ELSE IF value.trimmed = 0 /\ ~rule.required THEN TRUE
        ELSE IF rule.minLength # 0 /\ value.length < rule.minLength THEN FALSE
        ELSE IF rule.maxLength # 0 /\ value.length > rule.maxLength THEN FALSE
        ELSE IF rule.pattern /\ value.trimmed # 0 /\ ~value.matches THEN FALSE
        ELSE TRUE

\* validateForm with isValid assigned from each field in turn, so that the
\* last field decides.
validateForm_LastOnly(form) == validateField("message", form["message"])

\* validateForm()
validateForm(form) == \A f \in Fields : validateField(f, form[f])

\* ------------------------------------------------------------ mobile menu

\* The window width from which the resize listener closes the menu.
DESKTOP_WIDTH == 768

\* The menu's elements as the markup of a closed menu gives them: no 'active'
\* class, no 'menu-open' class on the body.
ClosedMenu ==
    [navHamburger |-> [active |-> FALSE, ariaExpanded |-> "false"],
     navLinks |-> [active |-> FALSE],
     navMobileOverlay |-> [active |-> FALSE],
     body |-> [menuOpen |-> FALSE]]

\* openMobileMenu()
openMobileMenu(m) ==
    [navHamburger |-> [active |-> TRUE, ariaExpanded |-> "true"],
     navLinks |-> [active |-> TRUE],
     navMobileOverlay |-> [active |-> TRUE],
     body |-> [menuOpen |-> TRUE]]

\* closeMobileMenu that leaves the overlay's class in place.
closeMobileMenu_KeepsOverlay(m) ==
    [navHamburger |-> [active |-> FALSE, ariaExpanded |-> "false"],
     navLinks |-> [active |-> FALSE],
     navMobileOverlay |-> m.navMobileOverlay,
     body |-> [menuOpen |-> FALSE]]

\* closeMobileMenu()
closeMobileMenu(m) ==
    [navHamburger |-> [active |-> FALSE, ariaExpanded |-> "false"],
     navLinks |-> [active |-> FALSE],
     navMobileOverlay |-> [active |-> FALSE],
     body |-> [menuOpen |-> FALSE]]

\* toggleMobileMenu()
toggleMobileMenu(m) ==
    IF m.navHamburger.active THEN closeMobileMenu(m) ELSE openMobileMenu(m)

\* The keydown listener of the document.
onKeydown(m, key) ==
    IF key = "Escape" /\ m.navHamburger.active THEN closeMobileMenu(m) ELSE m

\* The resize listener of the window.
onResize(m, innerWidth) ==
    IF innerWidth >= DESKTOP_WIDTH /\ m.navHamburger.active THEN closeMobileMenu(m) ELSE m

\* ------------------------------------------------------------------- page

Tabs == {"A", "B"}

\* A tab before its script has run.
NoPage ==
    [loaded |-> FALSE,
     rateLimitCountdownInterval |-> 0,      \* 0 is null
     intervals |-> {},                      \* scheduled setInterval callbacks
     preempted |-> 0,                       \* the handle showRateLimitMessage cleared last
     timeouts |-> {},                       \* due times of showStatus's setTimeout callbacks
     submitBtn |-> [disabled |-> FALSE, textContent |-> "Request Quote"],
     formStatus |-> [textContent |-> "", className |-> "form-status"],
     fetching |-> 0,                        \* submit handlers awaiting fetch()
     reading |-> 0,                         \* submit handlers awaiting response.json()
     menu |-> ClosedMenu,                   \* the mobile menu's elements
     innerWidth |-> 1024]                   \* window.innerWidth

\* What a handler reads from its surroundings.
Env == [now |-> clock, readable |-> storage.readable, writable |-> storage.writable]

\* What a handler changes: its tab's state p and the stored text.
World(p, store) == [p |-> p, store |-> store]

\* A handle setInterval may return: a positive integer that names no scheduled
\* timer and that nothing still holds.
NewHandle(p) ==
    LET held == {p.rateLimitCountdownInterval, p.preempted} \cup {i.id : i \in p.intervals}
    IN  CHOOSE h \in 1..(Cardinality(held) + 1) :
            /\ h \notin held
            /\ \A k \in 1..(h - 1) : k \in held

\* rateLimitCountdownInterval = setInterval(updateCountdown, 1000)
setInterval(p, resetTime, now) ==
    LET h == NewHandle(p)
    IN  [p EXCEPT !.intervals = @ \cup {[id |-> h, resetTime |-> resetTime,
                                         due |-> now + COUNTDOWN_MS]},
                  !.rateLimitCountdownInterval = h]

\* clearInterval(handle)
clearInterval(p, handle) ==
    [p EXCEPT !.intervals = {i \in @ : i.id # handle}]

\* resetTime - now <= 0
CountdownOver(resetTime, now) ==
    CASE resetTime.t = "number" -> resetTime.v - now <= 0
      [] resetTime.t = "Infinity" -> FALSE
      [] resetTime.t = "-Infinity" -> TRUE
      [] OTHER -> 0 - now <= 0

\* showStatus(message, type)
showStatus(p, message, type, now) ==
    [p EXCEPT !.formStatus = [textContent |-> message,
                              className |-> IF type = "success" THEN "form-status success"
                                            ELSE "form-status error"],
              !.timeouts = IF type = "success" THEN @ \cup {now + STATUS_CLEAR_MS} ELSE @]

\* clearForm()
clearForm(p) ==
    [p EXCEPT !.formStatus = [textContent |-> "", className |-> "form-status"]]

\* The countdown callback without the clearInterval of its expiry branch.
updateCountdown_NoClear(w, resetTime, env) ==
    IF CountdownOver(resetTime, env.now)
    THEN LET chk == checkRateLimit(w.store, env.now, env.readable, env.writable)
         IN  World([w.p EXCEPT !.formStatus = [textContent |-> "", className |-> "form-status"],
                               !.submitBtn = [disabled |-> FALSE,
                                              textContent |-> "Request Quote"]],
                   chk.store)
    ELSE World([w.p EXCEPT !.formStatus = [textContent |-> "rate-limit",
                                           className |-> "form-status error"]],
               w.store)

\* The countdown callback of one showRateLimitMessage(resetTime) call.
updateCountdown(w, resetTime, env) ==
    IF CountdownOver(resetTime, env.now)
    THEN LET chk == checkRateLimit(w.store, env.now, env.readable, env.writable)
             p1 == [w.p EXCEPT !.formStatus = [textContent |-> "", className |-> "form-status"],
                               !.submitBtn = [disabled |-> FALSE, textContent |-> "Request Quote"]]
             p2 == IF p1.rateLimitCountdownInterval # 0
                   THEN [clearInterval(p1, p1.rateLimitCountdownInterval)
                             EXCEPT !.rateLimitCountdownInterval = 0]
                   ELSE p1
         IN  World(p2, chk.store)
    ELSE World([w.p EXCEPT !.formStatus = [textContent |-> "rate-limit",
                                           className |-> "form-status error"]],
               w.store)

\* showRateLimitMessage without the clearInterval of the running countdown.
showRateLimitMessage_Leak(w, resetTime, env) ==
    LET w2 == updateCountdown(w, resetTime, env)
    IN  World([setInterval(w2.p, resetTime, env.now)
                   EXCEPT !.submitBtn = [disabled |-> TRUE, textContent |-> "Limit Reached"]],
              w2.store)

\* showRateLimitMessage(resetTime)
showRateLimitMessage(w, resetTime, env) ==
    LET p1 == IF w.p.rateLimitCountdownInterval # 0
              THEN [clearInterval(w.p, w.p.rateLimitCountdownInterval)
                        EXCEPT !.rateLimitCountdownInterval = 0,
                               !.preempted = w.p.rateLimitCountdownInterval]
              ELSE w.p
        w2 == updateCountdown(World(p1, w.store), resetTime, env)
    IN  World([setInterval(w2.p, resetTime, env.now)
                   EXCEPT !.submitBtn = [disabled |-> TRUE, textContent |-> "Limit Reached"]],
              w2.store)

\* ---------------------------------------------------------- form handlers

\* The script's start on a page that has the contact form: the rate check on
\* page load.
initialRateCheck(w, env) ==
    LET chk == checkRateLimit(w.store, env.now, env.readable, env.writable)
        w1 == World([NoPage EXCEPT !.loaded = TRUE, !.innerWidth = w.p.innerWidth],
                    chk.store)
    IN  IF ~chk.decision.allowed /\ Truthy(chk.decision.resetTime)
        THEN showRateLimitMessage(w1, chk.decision.resetTime, env)
        ELSE w1

\* The finally block without its else branch: the button is not re-enabled.
finalCheck_NoReenable(w, env) ==
    LET chk == checkRateLimit(w.store, env.now, env.readable, env.writable)
        w1 == World(w.p, chk.store)
    IN  IF ~chk.decision.allowed /\ Truthy(chk.decision.resetTime)
        THEN showRateLimitMessage(w1, chk.decision.resetTime, env)
        ELSE w1

\* The submit handler's finally block.
finalCheck(w, env) ==
    LET chk == checkRateLimit(w.store, env.now, env.readable, env.writable)
        w1 == World(w.p, chk.store)
    IN  IF ~chk.decision.allowed /\ Truthy(chk.decision.resetTime)
        THEN showRateLimitMessage(w1, chk.decision.resetTime, env)
        ELSE World([w1.p EXCEPT !.submitBtn = [disabled |-> FALSE,
                                               textContent |-> "Request Quote"]],
                   w1.store)

\* The submit handler with the pre-check's early return removed.
onSubmit_NoPreCheck(w, valid, env) ==
    LET chk == checkRateLimit(w.store, env.now, env.readable, env.writable)
        w1 == World(w.p, chk.store)
    IN  IF ~valid
        THEN World(showStatus(w1.p, "correct-errors", "error", env.now), w1.store)
        ELSE World([w1.p EXCEPT !.submitBtn = [disabled |-> TRUE, textContent |-> "Sending..."],
                                !.fetching = @ + 1],
                   w1.store)

\* The submit handler without the disabling of the button before the request.
onSubmit_NoDisable(w, valid, env) ==
    LET chk == checkRateLimit(w.store, env.now, env.readable, env.writable)
        w1 == World(w.p, chk.store)
    IN  IF ~chk.decision.allowed
        THEN IF Truthy(chk.decision.resetTime)
             THEN showRateLimitMessage(w1, chk.decision.resetTime, env)
             ELSE w1
        ELSE IF ~valid
        THEN World(showStatus(w1.p, "correct-errors", "error", env.now), w1.store)
        ELSE World([w1.p EXCEPT !.fetching = @ + 1], w1.store)

\* The submit handler up to its first await: the pre-check, the validation, and
\* the request sent.
onSubmit(w, valid, env) ==
    LET chk == checkRateLimit(w.store, env.now, env.readable, env.writable)
        w1 == World(w.p, chk.store)
    IN  IF ~chk.decision.allowed
        THEN IF Truthy(chk.decision.resetTime)
             THEN showRateLimitMessage(w1, chk.decision.resetTime, env)
             ELSE w1
        ELSE IF ~valid
        THEN World(showStatus(w1.p, "correct-errors", "error", env.now), w1.store)
        ELSE World([w1.p EXCEPT !.submitBtn = [disabled |-> TRUE, textContent |-> "Sending..."],
                                !.fetching = @ + 1],
                   w1.store)

\* The catch block, then the finally block, recording the failed attempt too.
onFailure_Records(w, env) ==
    finalCheck(World(showStatus(w.p, "error-occurred", "error", env.now),
                     recordSubmission(w.store, env.now, env.readable, env.writable).store),
               env)

\* The catch block, then the finally block.
onFailure(w, env) ==
    finalCheck(World(showStatus(w.p, "error-occurred", "error", env.now), w.store), env)

\* The success path without the finally block's check.
onSuccess_NoFinalCheck(w, env) ==
    LET p1 == showStatus(w.p, "thank-you", "success", env.now)
        s1 == recordSubmission(w.store, env.now, env.readable, env.writable).store
    IN  World([clearForm(p1) EXCEPT !.submitBtn = [disabled |-> FALSE,
                                                   textContent |-> "Request Quote"]],
              s1)

\* The success path after response.json(): showStatus, recordSubmission,
\* clearForm, then the finally block.
onSuccess(w, env) ==
    LET p1 == showStatus(w.p, "thank-you", "success", env.now)
        s1 == recordSubmission(w.store, env.now, env.readable, env.writable).store
    IN  finalCheck(World(clearForm(p1), s1), env)

\* ----------------------------------------------------------------- actions

Ran(op, t) == last' = [op |-> op, tab |-> t]

Becomes(t, w) ==
    /\ page' = [page EXCEPT ![t] = w.p]
    /\ localStorage' = w.store

\* The page is loaded, or loaded again: the old document's timers and pending
\* handlers are gone, and the script runs from its start.
PageLoad(t) ==
    /\ Becomes(t, initialRateCheck(World(page[t], localStorage), Env))
    /\ Ran("load", t)
    /\ UNCHANGED <<clock, call, storage, advances, scripted>>

\* A submit event. The browser submits the form through its submit button and
\* delivers none while that button is disabled.
Submit(t) ==
    /\ page[t].loaded
    /\ ~page[t].submitBtn.disabled
    /\ \E valid \in BOOLEAN :
          Becomes(t, onSubmit(World(page[t], localStorage), valid, Env))
    /\ Ran("submit", t)
    /\ UNCHANGED <<clock, call, storage, advances, scripted>>

\* A submit event dispatched by script (form.requestSubmit(), dispatchEvent):
\* it reaches the handler although the submit button is disabled.
ScriptedSubmit(t) ==
    /\ page[t].loaded
    /\ page[t].submitBtn.disabled
    /\ scripted < MaxScripted
    /\ scripted' = scripted + 1
    /\ \E valid \in BOOLEAN :
          Becomes(t, onSubmit(World(page[t], localStorage), valid, Env))
    /\ Ran("submit", t)
    /\ UNCHANGED <<clock, call, storage, advances>>

\* fetch() rejects: a network error.
FetchReject(t) ==
    /\ page[t].fetching > 0
    /\ Becomes(t, onFailure(World([page[t] EXCEPT !.fetching = @ - 1], localStorage), Env))
    /\ Ran("fetchReject", t)
    /\ UNCHANGED <<clock, call, storage, advances, scripted>>

\* fetch() resolves with a response that is not ok: the handler throws.
FetchNotOk(t) ==
    /\ page[t].fetching > 0
    /\ Becomes(t, onFailure(World([page[t] EXCEPT !.fetching = @ - 1], localStorage), Env))
    /\ Ran("fetchNotOk", t)
    /\ UNCHANGED <<clock, call, storage, advances, scripted>>

\* fetch() resolves with an ok response: the handler awaits response.json().
FetchOk(t) ==
    /\ page[t].fetching > 0
    /\ page' = [page EXCEPT ![t].fetching = @ - 1, ![t].reading = @ + 1]
    /\ Ran("fetchOk", t)
    /\ UNCHANGED <<localStorage, clock, call, storage, advances, scripted>>

\* response.json() rejects: the body is not JSON.
JsonReject(t) ==
    /\ page[t].reading > 0
    /\ Becomes(t, onFailure(World([page[t] EXCEPT !.reading = @ - 1], localStorage), Env))
    /\ Ran("jsonReject", t)
    /\ UNCHANGED <<clock, call, storage, advances, scripted>>

\* response.json() resolves: the submission is confirmed.
JsonOk(t) ==
    /\ page[t].reading > 0
    /\ Becomes(t, onSuccess(World([page[t] EXCEPT !.reading = @ - 1], localStorage), Env))
    /\ Ran("jsonOk", t)
    /\ UNCHANGED <<clock, call, storage, advances, scripted>>

\* A scheduled countdown callback fires, no earlier than it is due, and stays
\* scheduled one period later unless it was cleared.
Tick(t) ==
    /\ \E i \in page[t].intervals :
          /\ clock >= i.due
          /\ LET w == updateCountdown(World(page[t], localStorage), i.resetTime, Env)
                 again == [i EXCEPT !.due = clock + COUNTDOWN_MS]
             IN  Becomes(t, World([w.p EXCEPT !.intervals =
                                      IF i \in @ THEN (@ \ {i}) \cup {again} ELSE @],
                                  w.store))
    /\ Ran("tick", t)
    /\ UNCHANGED <<clock, call, storage, advances, scripted>>

\* The timeout of a success message fires and blanks the status area.
StatusTimeout(t) ==
    /\ \E due \in page[t].timeouts :
          /\ clock >= due
          /\ page' = [page EXCEPT ![t].timeouts = @ \ {due},
                                  ![t].formStatus = [textContent |-> "",
                                                     className |-> "form-status"]]
    /\ Ran("statusTimeout", t)
    /\ UNCHANGED <<localStorage, clock, call, storage, advances, scripted>>

\* Time passes.
ClockSteps == {COUNTDOWN_MS, TIME_WINDOW - COUNTDOWN_MS}

AdvanceClock ==
    /\ advances < MaxAdvances
    /\ \E d \in ClockSteps : clock' = clock + d
    /\ advances' = advances + 1
    /\ last' = [op |-> "clock", tab |-> "-"]
    /\ UNCHANGED <<localStorage, page, call, storage, scripted>>

\* ------------------------------------------------- the form in one tab

NoCall ==
    [op |-> "none", stored |-> Absent, now |-> 0, arg |-> <<>>, ret |-> <<>>,
     threw |-> FALSE, decision |-> [allowed |-> TRUE, remaining |-> 0, resetTime |-> Null]]

\* The clock when the behaviour starts: one window after time 0.
StartClock == TIME_WINDOW

Stamps(times) == [i \in DOMAIN times |-> Num(times[i])]

\* What the store may hold when the page is first opened: nothing, text that
\* is no array of numbers, and logs of earlier visits with fewer than, exactly
\* and more than MAX_SUBMISSIONS unexpired timestamps.
FullLog == ArrayText(Stamps(<<1000, 1000, 2000, 2000, StartClock>>))
OverfullLog ==
    ArrayText(Stamps(<<1000, 2000, 2000, 2000, StartClock, StartClock, StartClock>>))

InitStores ==
    { Absent,
      Text("malformed", <<>>),
      Text("object", <<>>),
      ArrayText(<<Str, Num(StartClock - 1000), Null>>),
      ArrayText(Stamps(<<0, 1000, 1000, 2000, StartClock>>)),
      FullLog,
      ArrayText(Stamps(<<2000, 1000, 1000, StartClock, 1000>>)),
      OverfullLog,
      ArrayText(<<Overflow, Overflow, Overflow, Overflow, Overflow>>) }

Init ==
    /\ localStorage \in InitStores
    /\ clock = StartClock
    /\ page = [t \in Tabs |-> NoPage]
    /\ last = [op |-> "init", tab |-> "-"]
    /\ call = NoCall
    /\ storage = [readable |-> TRUE, writable |-> TRUE]
    /\ advances = 0
    /\ scripted = 0

Next ==
    \/ \E t \in {"A"} :
          \/ PageLoad(t)
          \/ Submit(t)
          \/ FetchReject(t)
          \/ FetchNotOk(t)
          \/ FetchOk(t)
          \/ JsonReject(t)
          \/ JsonOk(t)
          \/ Tick(t)
          \/ StatusTimeout(t)
    \/ AdvanceClock

\* One tab, a working store, a clock that never goes back, and submit events
\* that come from the user through the submit button.
Spec == Init /\ [][Next]_vars

NextScripted ==
    \/ Next
    \/ \E t \in {"A"} : ScriptedSubmit(t)

InitScripted ==
    /\ Init
    /\ localStorage \in {FullLog, OverfullLog}

\* The same from a log that is full or more than full, with submit events that
\* scripts dispatch as well.
SpecScripted == InitScripted /\ [][NextScripted]_vars

\* ------------------------------------- the form while time keeps passing

\* Time passes until the tick of a running countdown that comes at or after
\* its reset time.
AdvanceToReset ==
    /\ \E t \in {"A"} : \E i \in page[t].intervals :
          /\ i.resetTime.t = "number"
          /\ LET target == IF i.resetTime.v >= i.due THEN i.resetTime.v ELSE i.due
             IN  clock < target /\ clock' = target
    /\ advances' = advances + 1
    /\ last' = [op |-> "clock", tab |-> "-"]
    /\ UNCHANGED <<localStorage, page, call, storage, scripted>>

\* Submit events of the user, none after the clock has moved MaxAdvances times.
SubmitEarly(t) ==
    /\ advances < MaxAdvances
    /\ Submit(t)

NextLive ==
    \/ \E t \in {"A"} :
          \/ PageLoad(t)
          \/ SubmitEarly(t)
          \/ FetchReject(t)
          \/ FetchNotOk(t)
          \/ FetchOk(t)
          \/ JsonReject(t)
          \/ JsonOk(t)
          \/ Tick(t)
          \/ StatusTimeout(t)
    \/ AdvanceClock
    \/ AdvanceToReset

\* The form in one tab where a scheduled countdown tick that is due fires in
\* the end (setInterval), and the clock does not stop short of a running
\* countdown's reset time.
SpecLive ==
    /\ Init
    /\ [][NextLive]_vars
    /\ WF_vars(Tick("A"))
    /\ WF_vars(AdvanceToReset)

\* ------------------------------------------- two tabs sharing the store

\* response.json() resolves in two tabs at once, each tab in its own process:
\* both recordSubmission calls read the store (getItem) before either writes
\* (setItem), so tab u writes the log it read with its own timestamp over the
\* log tab t wrote. Then each handler goes on to its end.
JsonOkRace(t, u) ==
    /\ t # u
    /\ page[t].reading > 0
    /\ page[u].reading > 0
    /\ LET wt == onSuccess(World([page[t] EXCEPT !.reading = @ - 1], localStorage), Env)
           pu == showStatus([page[u] EXCEPT !.reading = @ - 1], "thank-you", "success",
                            Env.now)
           su == recordSubmission(localStorage, Env.now, Env.readable, Env.writable).store
           wu == finalCheck(World(clearForm(pu), su), Env)
       IN  /\ page' = [page EXCEPT ![t] = wt.p, ![u] = wu.p]
           /\ localStorage' = wu.store
    /\ Ran("jsonOkRace", u)
    /\ UNCHANGED <<clock, call, storage, advances, scripted>>

\* Time passes, MaxTabAdvances times at most.
AdvanceClockOnce ==
    /\ advances < MaxTabAdvances
    /\ AdvanceClock

NextTabs ==
    \/ \E t \in Tabs :
          \/ PageLoad(t)
          \/ Submit(t)
          \/ FetchReject(t)
          \/ FetchNotOk(t)
          \/ FetchOk(t)
          \/ JsonReject(t)
          \/ JsonOk(t)
          \/ Tick(t)
          \/ StatusTimeout(t)
    \/ \E t, u \in Tabs : JsonOkRace(t, u)
    \/ AdvanceClockOnce

\* The log of earlier visits that is one unexpired timestamp short of
\* MAX_SUBMISSIONS.
TabStores ==
    { ArrayText(Stamps(<<0, 1000, 1000, 2000, StartClock>>)) }

InitTabs ==
    /\ Init
    /\ localStorage \in TabStores

\* The form open in two tabs of one browser profile, which share the store
\* and the clock and nothing else.
SpecTabs == InitTabs /\ [][NextTabs]_vars

\* ------------------------------------ the form on a store that rejects writes

\* localStorage.setItem throws on every call (quota exceeded, storage
\* disabled); getItem works or throws.
InitNoWrite ==
    /\ localStorage \in InitStores
    /\ clock = StartClock
    /\ page = [t \in Tabs |-> NoPage]
    /\ last = [op |-> "init", tab |-> "-"]
    /\ call = NoCall
    /\ storage \in [readable : BOOLEAN, writable : {FALSE}]
    /\ advances = 0
    /\ scripted = 0

\* The form in one tab on such a store.
SpecNoWrite == InitNoWrite /\ [][Next]_vars

\* ------------------------------------------ the form with its fields

\* Values of a field with a pattern: empty, blanks only, text that does not
\* match, text that matches.
PatternValues ==
    {FieldValue(0, 0, FALSE), FieldValue(2, 0, FALSE), FieldValue(5, 5, FALSE),
     FieldValue(5, 5, TRUE)}

\* Values of the message: empty, blanks only, too short, the shortest and the
\* longest allowed, too long, and texts padded with blanks.
MessageValues ==
    {FieldValue(0, 0, FALSE), FieldValue(MIN_LENGTH + 1, 0, FALSE),
     FieldValue(MIN_LENGTH - 1, MIN_LENGTH - 1, FALSE),
     FieldValue(MIN_LENGTH, MIN_LENGTH, FALSE),
     FieldValue(MIN_LENGTH + 2, MIN_LENGTH - 2, FALSE),
     FieldValue(MAX_LENGTH, MAX_LENGTH, FALSE),
     FieldValue(MAX_LENGTH + 1, MAX_LENGTH + 1, FALSE),
     FieldValue(MAX_LENGTH + 2, MAX_LENGTH, FALSE)}

\* A form that passes validation.
ValidForm ==
    [f \in Fields |-> IF f = "message" THEN FieldValue(MIN_LENGTH, MIN_LENGTH, FALSE)
                      ELSE FieldValue(5, 5, TRUE)]

\* What the four fields may hold when the form is submitted: the valid form
\* with one field changed, or with the name and the message changed.
Forms ==
    {[ValidForm EXCEPT ![f] = v] : f \in Fields \ {"message"}, v \in PatternValues}
    \cup {[ValidForm EXCEPT !["message"] = m] : m \in MessageValues}
    \cup {[ValidForm EXCEPT !["name"] = v, !["message"] = m] :
              v \in {FieldValue(5, 5, FALSE)},
              m \in {FieldValue(MIN_LENGTH - 1, MIN_LENGTH - 1, FALSE),
                     FieldValue(MAX_LENGTH + 1, MAX_LENGTH + 1, FALSE)}}

\* A submit event of the user with the fields as they are filled in.
SubmitForm(t) ==
    /\ page[t].loaded
    /\ ~page[t].submitBtn.disabled
    /\ \E form \in Forms :
          /\ Becomes(t, onSubmit(World(page[t], localStorage), validateForm(form), Env))
          /\ call' = [NoCall EXCEPT !.op = "validateForm", !.arg = <<form>>,
                                    !.ret = <<validateForm(form)>>]
    /\ Ran("submit", t)
    /\ UNCHANGED <<clock, storage, advances, scripted>>

NextForm ==
    \/ \E t \in {"A"} :
          \/ PageLoad(t)
          \/ SubmitForm(t)
          \/ FetchReject(t)
          \/ FetchNotOk(t)
          \/ FetchOk(t)
          \/ JsonReject(t)
          \/ JsonOk(t)
          \/ Tick(t)
          \/ StatusTimeout(t)
    \/ AdvanceClockOnce

InitForm ==
    /\ Init
    /\ localStorage \in TabStores \cup {FullLog, OverfullLog}

\* The form in one tab, with the values of its fields.
SpecForm == InitForm /\ [][NextForm]_vars

\* ------------------------------------------ the form and what it sends

\* A text by what trimming and escaping look at: its length, the length of
\* its trimmed part, whether that part matches the field's pattern, and how
\* many of its characters are '&' (amp) and '<' or '>' (angle).
TextValue(length, trimmed, matches, amp, angle) ==
    [length |-> length, trimmed |-> trimmed, matches |-> matches,
     amp |-> amp, angle |-> angle]

\* value.trim()
trim(value) == [value EXCEPT !.length = value.trimmed]

\* sanitizeInput(str): the text is assigned to a div's textContent and read
\* back as innerHTML, which writes '&' as '&amp;' and '<', '>' as '&lt;',
\* '&gt;'.
sanitizeInput(str) ==
    [str EXCEPT !.length = @ + 4 * str.amp + 3 * str.angle,
                !.trimmed = @ + 4 * str.amp + 3 * str.angle]

\* formData, without its csrf_token.
formData(form) == [f \in Fields |-> sanitizeInput(trim(form[f]))]

\* Messages: empty, blanks only, around the shortest and the longest length
\* allowed, padded with blanks, with and without characters that are escaped.
SendValues ==
    {TextValue(q[1] + q[2], q[1], FALSE, q[3], q[4]) :
        q \in {r \in {0, 1, MIN_LENGTH - 1, MIN_LENGTH, MAX_LENGTH, MAX_LENGTH + 1}
                      \X {0, 2} \X {0, 1} \X {0, 1} :
                  r[3] + r[4] <= r[1]}}

\* A submit event of the user with a message from SendValues and the other
\* three fields filled in as their patterns ask.
SubmitMessage(t) ==
    /\ page[t].loaded
    /\ ~page[t].submitBtn.disabled
    /\ \E m \in SendValues :
          LET form == [f \in Fields |-> IF f = "message" THEN m
                                        ELSE TextValue(5, 5, TRUE, 0, 0)]
              w == onSubmit(World(page[t], localStorage), validateForm(form), Env)
          IN  /\ Becomes(t, w)
              /\ call' = IF w.p.fetching > page[t].fetching
                         THEN [NoCall EXCEPT !.op = "fetch", !.arg = <<form>>,
                                             !.ret = <<formData(form)>>]
                         ELSE [NoCall EXCEPT !.op = "validateForm", !.arg = <<form>>,
                                             !.ret = <<validateForm(form)>>]
    /\ Ran("submit", t)
    /\ UNCHANGED <<clock, storage, advances, scripted>>

NextSend ==
    \/ \E t \in {"A"} :
          \/ PageLoad(t)
          \/ SubmitMessage(t)
          \/ FetchReject(t)
          \/ FetchNotOk(t)
          \/ FetchOk(t)
          \/ JsonReject(t)
          \/ JsonOk(t)
          \/ Tick(t)
          \/ StatusTimeout(t)
    \/ AdvanceClockOnce

\* The form in one tab, with the message it validates and the request body
\* it builds.
SpecSend == InitForm /\ [][NextSend]_vars

\* ------------------------------- the form while a success message is shown

\* Time passes until the timeout of a success message is due.
AdvanceToTimeout ==
    /\ advances < MaxAdvances
    /\ \E t \in {"A"} : \E due \in page[t].timeouts :
          clock < due /\ clock' = due
    /\ advances' = advances + 1
    /\ last' = [op |-> "clock", tab |-> "-"]
    /\ UNCHANGED <<localStorage, page, call, storage, scripted>>

NextStatus ==
    \/ \E t \in {"A"} :
          \/ PageLoad(t)
          \/ Submit(t)
          \/ FetchReject(t)
          \/ FetchNotOk(t)
          \/ FetchOk(t)
          \/ JsonReject(t)
          \/ JsonOk(t)
          \/ Tick(t)
          \/ StatusTimeout(t)
    \/ AdvanceClockOnce
    \/ AdvanceToTimeout

\* Four submissions in the last seconds before the page is opened.
RecentLog ==
    ArrayText(Stamps(<<StartClock - 4000, StartClock - 3000,
                       StartClock - 2000, StartClock - 1000>>))

\* Logs one or two submissions short of the limit.
StatusStores ==
    { RecentLog,
      ArrayText(Stamps(<<1000, 2000, StartClock>>)),
      ArrayText(Stamps(<<0, 1000, 1000, 2000, StartClock>>)) }

InitStatus ==
    /\ localStorage \in StatusStores
    /\ clock = StartClock
    /\ page = [t \in Tabs |-> NoPage]
    /\ last = [op |-> "init", tab |-> "-"]
    /\ call = NoCall
    /\ storage = [readable |-> TRUE, writable |-> TRUE]
    /\ advances = 0
    /\ scripted = 0

\* The form in one tab, with the clock reaching the moment showStatus's
\* 5-second timeout is due.
SpecStatus == InitStatus /\ [][NextStatus]_vars

\* ------------------------------------------------- the mobile menu's events

\* An event of the menu has run its listener in tab t.
MenuEvent(t, op, arg, m, width) ==
    /\ page' = [page EXCEPT ![t].menu = m, ![t].innerWidth = width]
    /\ last' = [op |-> op, tab |-> t]
    /\ call' = [NoCall EXCEPT !.op = op, !.arg = arg]
    /\ UNCHANGED <<localStorage, clock, storage, advances, scripted>>

\* A click on the hamburger button.
HamburgerClick(t) ==
    MenuEvent(t, "hamburgerClick", <<>>, toggleMobileMenu(page[t].menu), page[t].innerWidth)

\* A click on the overlay.
OverlayClick(t) ==
    MenuEvent(t, "overlayClick", <<>>, closeMobileMenu(page[t].menu), page[t].innerWidth)

\* A click on one of the links inside navLinks.
NavLinkClick(t) ==
    \E link \in 1..MaxLinks :
        MenuEvent(t, "linkClick", <<link>>, closeMobileMenu(page[t].menu), page[t].innerWidth)

\* A key is pressed.
KeyDown(t) ==
    \E key \in {"Escape", "Enter", "Tab"} :
        MenuEvent(t, "keydown", <<key>>, onKeydown(page[t].menu, key), page[t].innerWidth)

\* Window widths on both sides of DESKTOP_WIDTH.
Widths ==
    {320, 480, DESKTOP_WIDTH - 1, DESKTOP_WIDTH, DESKTOP_WIDTH + 1, 1024, 1440}

\* The window is resized.
Resize(t) ==
    \E width \in Widths \ {page[t].innerWidth} :
        MenuEvent(t, "resize", <<width>>, onResize(page[t].menu, width), width)

NextMenu ==
    \E t \in {"A"} :
        \/ HamburgerClick(t)
        \/ OverlayClick(t)
        \/ NavLinkClick(t)
        \/ KeyDown(t)
        \/ Resize(t)

\* The script has run on a page whose markup shows the menu closed, with
\* aria-expanded="false" on the hamburger button or without the attribute.
InitMenu ==
    /\ localStorage = Absent
    /\ clock = StartClock
    /\ \E aria \in {"false", "none"} : \E width \in Widths :
          page = [t \in Tabs |->
                    [NoPage EXCEPT !.menu.navHamburger.ariaExpanded = aria,
                                   !.innerWidth = width]]
    /\ last = [op |-> "init", tab |-> "-"]
    /\ call = NoCall
    /\ storage = [readable |-> TRUE, writable |-> TRUE]
    /\ advances = 0
    /\ scripted = 0

\* The mobile menu of one tab on a page that has the hamburger button, the
\* links and the overlay.
SpecMenu == InitMenu /\ [][NextMenu]_vars

\* --------------------------------------------- the limiter's functions

SeqsUpTo(S, n) == UNION {[1..k -> S] : k \in 0..n}

PrefixTokens == {Num(-5), Num(0), Num(5), Num(1000), Str, Null, Obj, Overflow, NegOverflow}

Tails == {<<>>, Stamps(<<1, 2, 3, 4>>), Stamps(<<1, 2, 3, 4, 5>>)}

\* Stored texts the functions are applied to: every kind of text that is no
\* array, and arrays made of a short run of arbitrary tokens and a run of
\* timestamps.
PureStores ==
    {Text(k, <<>>) : k \in {"absent", "empty", "malformed", "null", "object",
                            "string", "number"}}
    \cup {ArrayText(pre \o tail) : pre \in SeqsUpTo(PrefixTokens, MaxPrefix), tail \in Tails}

PureTimes == {0, 5, 1000, TIME_WINDOW, TIME_WINDOW + 4, TIME_WINDOW + 5}

InitPure ==
    /\ localStorage \in PureStores
    /\ clock \in PureTimes
    /\ page = [t \in Tabs |-> NoPage]
    /\ last = [op |-> "init", tab |-> "-"]
    /\ call = NoCall
    /\ storage = [readable |-> TRUE, writable |-> TRUE]
    /\ advances = 0
    /\ scripted = 0

Called(op, arg, ret, threw, decision) ==
    call' = [op |-> op, stored |-> localStorage, now |-> clock, arg |-> arg, ret |-> ret,
             threw |-> threw, decision |-> decision]

CallGetSubmissions ==
    /\ LET r == getSubmissions(localStorage, storage.readable)
       IN  Called("getSubmissions", <<>>, r.value, r.threw, NoCall.decision)
    /\ UNCHANGED <<localStorage, clock, page, last, storage, advances, scripted>>

\* cleanupOldSubmissions applied to the loaded log.
CallCleanupOldSubmissions ==
    /\ LET L == getSubmissions(localStorage, storage.readable).value
       IN  Called("cleanupOldSubmissions", L, cleanupOldSubmissions(L, clock), FALSE,
                  NoCall.decision)
    /\ UNCHANGED <<localStorage, clock, page, last, storage, advances, scripted>>

CallCheckRateLimit ==
    /\ LET chk == checkRateLimit(localStorage, clock, storage.readable, storage.writable)
       IN  /\ Called("checkRateLimit", <<>>, <<>>, chk.threw, chk.decision)
           /\ localStorage' = chk.store
    /\ UNCHANGED <<clock, page, last, storage, advances, scripted>>

NextPure ==
    \/ CallGetSubmissions
    \/ CallCleanupOldSubmissions
    \/ CallCheckRateLimit

\* The limiter's functions applied to stored texts and times drawn from
\* PureStores and PureTimes.
SpecPure == InitPure /\ [][NextPure]_vars

\* ------------------------------- the limiter's functions on a failing store

\* localStorage's getItem and setItem each work or throw (storage disabled,
\* quota exceeded).
InitStore ==
    /\ localStorage \in PureStores
    /\ clock \in PureTimes
    /\ page = [t \in Tabs |-> NoPage]
    /\ last = [op |-> "init", tab |-> "-"]
    /\ call = NoCall
    /\ storage \in [readable : BOOLEAN, writable : BOOLEAN]
    /\ advances = 0
    /\ scripted = 0

CallRecordSubmission ==
    /\ Len(localStorage.items) < MaxStored
    /\ LET r == recordSubmission(localStorage, clock, storage.readable, storage.writable)
       IN  /\ Called("recordSubmission", <<>>, <<>>, r.threw, NoCall.decision)
           /\ localStorage' = r.store
    /\ UNCHANGED <<clock, page, last, storage, advances, scripted>>

NextStore ==
    \/ NextPure
    \/ CallRecordSubmission

\* The limiter's functions, recordSubmission included, on a store whose reads
\* and writes may fail.
SpecStore == InitStore /\ [][NextStore]_vars

\* ------------------------------------------------- the countdown's text

\* Remaining times from 1 ms to TIME_WINDOW: around every whole minute and
\* whole second at the start and the end of each minute.
FormatTimes ==
    {ms \in {m * 60000 + sec * COUNTDOWN_MS + r :
                m \in 0..60, sec \in {0, 1, 30, 58, 59}, r \in {0, 1, 500, 999}} :
        ms > 0 /\ ms <= TIME_WINDOW}

CallFormatTimeRemaining ==
    /\ \E ms \in FormatTimes :
          call' = [NoCall EXCEPT !.op = "formatTimeRemaining", !.arg = <<ms>>,
                                 !.ret = <<formatTimeRemaining(ms)>>]
    /\ UNCHANGED <<localStorage, clock, page, last, storage, advances, scripted>>

NextFormat == CallFormatTimeRemaining

InitFormat ==
    /\ Init
    /\ localStorage = Absent

\* formatTimeRemaining applied to the remaining times of FormatTimes.
SpecFormat == InitFormat /\ [][NextFormat]_vars

\* ------------------------------------------------------------------ claims

\* The timestamps a stored text holds that have not expired at time now,
\* counted on the text itself.
Unexpired(text, now) ==
    IF text.kind # "array" THEN 0
    ELSE Cardinality({i \in DOMAIN text.items :
                        \/ text.items[i].t = "number" /\ now - text.items[i].v < TIME_WINDOW
                        \/ text.items[i].t = "overflow"})

\* The log a handler that starts now would load and prune.
PrunedLog ==
    cleanupOldSubmissions(getSubmissions(localStorage, storage.readable).value, clock)

Failures == {"fetchReject", "fetchNotOk", "jsonReject"}

\* C1: in one tab, with a working store and a clock that never goes back, a
\* stored log with at most MAX_SUBMISSIONS unexpired timestamps never comes to
\* hold more than that, whatever the page loads, submit events, request
\* outcomes, countdown ticks and clock advances; and recordSubmission (run only
\* when response.json() has resolved) never runs while MAX_SUBMISSIONS
\* unexpired timestamps are stored.
C1_QuotaKept ==
    [][ /\ Unexpired(localStorage, clock) <= MAX_SUBMISSIONS
           => Unexpired(localStorage', clock') <= MAX_SUBMISSIONS
        /\ last'.op = "jsonOk" => Unexpired(localStorage, clock) < MAX_SUBMISSIONS ]_vars

\* A confirmed submission has just been recorded and it filled the quota.
C1_Witness ==
    /\ last.op = "jsonOk"
    /\ Unexpired(localStorage, clock) = MAX_SUBMISSIONS

\* C2: a submit event that arrives while the pruned log holds MAX_SUBMISSIONS
\* entries or more sends no request (no handler of the tab starts to await
\* fetch or a body) and records nothing: the log stored afterwards is the
\* pruned log the handler read.
C2_BlockedSubmit ==
    [][ \A t \in Tabs :
          (last' = [op |-> "submit", tab |-> t] /\ Len(PrunedLog) >= MAX_SUBMISSIONS)
          => /\ page'[t].fetching = page[t].fetching
             /\ page'[t].reading = page[t].reading
             /\ getSubmissions(localStorage', storage.readable).value = PrunedLog ]_vars

\* A submit event has just been handled with a full log in the store.
C2_Witness ==
    /\ last.op = "submit"
    /\ Unexpired(localStorage, clock) >= MAX_SUBMISSIONS

\* C3: the number of unexpired stored timestamps grows only in the step in
\* which response.json() of an ok response resolves; a submit handling that is
\* stopped by the pre-check or by validation, or whose request fails (fetch
\* rejects, the status is not ok, the body cannot be read), leaves that number
\* as it was.
C3_RecordOnlyOnSuccess ==
    [][ /\ Unexpired(localStorage', clock') > Unexpired(localStorage, clock)
           => last'.op = "jsonOk"
        /\ last'.op \in Failures \cup {"submit"}
           => Unexpired(localStorage', clock') = Unexpired(localStorage, clock) ]_vars

\* A request has just failed while the log was one short of the limit.
C3_Witness ==
    /\ last.op \in Failures
    /\ Unexpired(localStorage, clock) = MAX_SUBMISSIONS - 1

\* C4: when the recording of a confirmed submission brings the unexpired
\* stored timestamps to MAX_SUBMISSIONS, the same handler leaves the limited
\* state shown: a countdown timer is scheduled and held in
\* rateLimitCountdownInterval, and the submit button is disabled.
C4_LimitShownAtOnce ==
    [][ \A t \in Tabs :
          ( /\ last' = [op |-> "jsonOk", tab |-> t]
            /\ Unexpired(localStorage, clock) < MAX_SUBMISSIONS
            /\ Unexpired(localStorage', clock') = MAX_SUBMISSIONS )
          => /\ page'[t].rateLimitCountdownInterval # 0
             /\ \E i \in page'[t].intervals : i.id = page'[t].rateLimitCountdownInterval
             /\ page'[t].submitBtn.disabled ]_vars

\* The fifth submission has just been recorded and the countdown runs.
C4_Witness ==
    /\ last = [op |-> "jsonOk", tab |-> "A"]
    /\ Unexpired(localStorage, clock) = MAX_SUBMISSIONS
    /\ page["A"].intervals # {}
    /\ page["A"].submitBtn = [disabled |-> TRUE, textContent |-> "Limit Reached"]

\* C5: a page never has more than one countdown timer scheduled; the one
\* scheduled is the one rateLimitCountdownInterval holds, and a timer that
\* showRateLimitMessage cleared to start a new countdown is not scheduled (so
\* it cannot fire again).
C5_OneCountdown ==
    \A t \in Tabs :
        /\ Cardinality(page[t].intervals) <= 1
        /\ \A i \in page[t].intervals :
              /\ i.id = page[t].rateLimitCountdownInterval
              /\ i.id # page[t].preempted

\* A countdown was started while another was running, and the new one runs.
C5_Witness ==
    /\ page["A"].preempted # 0
    /\ page["A"].intervals # {}

\* The k-th smallest element of a set of indices.
Kth(I, k) == CHOOSE i \in I : Cardinality({j \in I : j <= i}) = k

Range(f) == {f[i] : i \in DOMAIN f}

\* C6: cleanupOldSubmissions(L) at time now returns exactly the entries t of L
\* with now - t < TIME_WINDOW, in the order they have in L; no entry whose age
\* is exactly TIME_WINDOW is returned; and the stored text is left as it was.
C6_PruneExact ==
    call.op = "cleanupOldSubmissions" =>
        LET L == call.arg
            R == call.ret
            keep == {i \in DOMAIN L :
                       \/ L[i].t = "number" /\ call.now - L[i].v < TIME_WINDOW
                       \/ L[i].t = "Infinity"}
        IN  /\ Len(R) = Cardinality(keep)
            /\ \A k \in 1..Cardinality(keep) : R[k] = L[Kth(keep, k)]
            /\ Num(call.now - TIME_WINDOW) \notin Range(R)
            /\ localStorage = call.stored

\* A log was pruned that held an entry of age exactly TIME_WINDOW and entries
\* that stay.
C6_Witness ==
    /\ call.op = "cleanupOldSubmissions"
    /\ Num(call.now - TIME_WINDOW) \in Range(call.arg)
    /\ Len(call.ret) > 0

\* A stored array whose elements are all numeric literals.
IsNumberLog(text) ==
    /\ text.kind = "array"
    /\ \A i \in DOMAIN text.items : text.items[i].t \in {"number", "overflow", "-overflow"}

\* C7: for a stored log of numbers of which n are unexpired, checkRateLimit
\* returns remaining = MAX_SUBMISSIONS - n and allowed = (n < MAX_SUBMISSIONS):
\* allowed is false and remaining 0 at n = MAX_SUBMISSIONS, remaining is
\* negative above it.
C7_Decision ==
    (call.op = "checkRateLimit" /\ IsNumberLog(call.stored)) =>
        LET n == Unexpired(call.stored, call.now)
        IN  /\ call.decision.remaining = MAX_SUBMISSIONS - n
            /\ call.decision.allowed = (n < MAX_SUBMISSIONS)
            /\ n = MAX_SUBMISSIONS => ~call.decision.allowed /\ call.decision.remaining = 0
            /\ n > MAX_SUBMISSIONS => call.decision.remaining < 0

\* checkRateLimit has answered for a log with more than MAX_SUBMISSIONS
\* unexpired timestamps.
C7_Witness ==
    /\ call.op = "checkRateLimit"
    /\ IsNumberLog(call.stored)
    /\ call.decision.remaining < 0

\* A stored array whose elements are all finite numbers.
IsFiniteLog(text) ==
    /\ text.kind = "array"
    /\ \A i \in DOMAIN text.items : text.items[i].t = "number"

\* C8: for a stored log of numbers, whenever checkRateLimit returns
\* allowed = false, its resetTime is the smallest surviving timestamp plus
\* TIME_WINDOW.
C8_ResetFromSmallest ==
    (call.op = "checkRateLimit" /\ IsFiniteLog(call.stored) /\ ~call.decision.allowed) =>
        LET alive == {call.stored.items[i].v : i \in
                        {j \in DOMAIN call.stored.items :
                           call.now - call.stored.items[j].v < TIME_WINDOW}}
        IN  \E m \in alive :
              /\ \A x \in alive : m <= x
              /\ call.decision.resetTime = Num(m + TIME_WINDOW)

ScenarioD ==
    /\ call.op = "checkRateLimit"
    /\ call.stored = ArrayText(Stamps(<<0, 1, 2, 3, 4>>))
    /\ call.now = TIME_WINDOW + 5

\* C9 as stated: with the log [0,1,2,3,4] stored and now = TIME_WINDOW + 5,
\* checkRateLimit prunes entry 0, keeps entries 1..4 and returns allowed = true,
\* remaining = 1.
C9_ScenarioD_Stated ==
    ScenarioD =>
        /\ localStorage = ArrayText(Stamps(<<1, 2, 3, 4>>))
        /\ call.decision.allowed
        /\ call.decision.remaining = 1

\* C9 as amended: with the log [0,1,2,3,4] stored and now = TIME_WINDOW + 5,
\* every entry has an age of TIME_WINDOW + 1 or more, so checkRateLimit prunes
\* all five, stores the empty log and returns allowed = true,
\* remaining = MAX_SUBMISSIONS and no resetTime.
C9_ScenarioD ==
    ScenarioD =>
        /\ localStorage = ArrayText(<<>>)
        /\ call.decision = [allowed |-> TRUE, remaining |-> MAX_SUBMISSIONS,
                            resetTime |-> Null]

\* checkRateLimit has answered for the log and the time of the scenario.
C9_Witness == ScenarioD

\* A stored text that is not a sequence of numbers.
NotNumberLog(text) == text.kind # "absent" /\ ~IsNumberLog(text)

\* C10 as stated: for a stored value that is not a valid sequence of numbers
\* (an object, a string, null, malformed text, a sequence with some
\* non-numeric entries), getSubmissions returns the empty sequence and does
\* not raise.
C10_CorruptIsEmpty ==
    (call.op = "getSubmissions" /\ NotNumberLog(call.stored)) =>
        /\ ~call.threw
        /\ call.ret = <<>>

\* C10 as amended: for such a stored value getSubmissions does not raise; it
\* returns the empty sequence when the value is no sequence (an object, a
\* string, null, a number, malformed or empty text), and for a sequence it
\* returns the numeric entries of the sequence, in their order, so the empty
\* sequence only when no entry is numeric.
C10_CorruptIsFiltered ==
    (call.op = "getSubmissions" /\ NotNumberLog(call.stored)) =>
        LET items == call.stored.items
            numeric == {i \in DOMAIN items :
                          items[i].t \in {"number", "overflow", "-overflow"}}
        IN  /\ ~call.threw
            /\ call.stored.kind # "array" => call.ret = <<>>
            /\ Len(call.ret) = Cardinality(numeric)
            /\ \A k \in 1..Cardinality(numeric) :
                  LET tok == items[Kth(numeric, k)]
                  IN  CASE tok.t = "number" -> call.ret[k] = tok
                        [] tok.t = "overflow" -> call.ret[k].t = "Infinity"
                        [] OTHER -> call.ret[k].t = "-Infinity"

\* getSubmissions has read a sequence with numeric and non-numeric entries and
\* returned the numeric ones.
C10_Witness ==
    /\ call.op = "getSubmissions"
    /\ NotNumberLog(call.stored)
    /\ call.stored.kind = "array"
    /\ call.ret # <<>>

\* C11: getSubmissions never throws, also when localStorage.getItem itself
\* throws, and every element of the array it returns is a number: a finite
\* number, Infinity or -Infinity, never a string, null or a nested value.
C11_LoadNeverThrows ==
    call.op = "getSubmissions" =>
        /\ ~call.threw
        /\ \A i \in DOMAIN call.ret : call.ret[i].t \in {"number", "Infinity", "-Infinity"}
        /\ ~storage.readable => call.ret = <<>>

\* getSubmissions was called while reads of the store fail, with a log stored.
C11_Witness ==
    /\ call.op = "getSubmissions"
    /\ ~storage.readable
    /\ IsNumberLog(call.stored)
    /\ call.stored.items # <<>>

\* A sequence of finite numbers that are not negative.
FiniteNonNegative(L) == \A i \in DOMAIN L : L[i].t = "number" /\ L[i].v >= 0

CleanupOps == {"load", "submit", "jsonOk"} \cup Failures

\* The finite timestamps of a stored array are in ascending order.
SortedLog(text) ==
    \A i, j \in DOMAIN text.items :
        (i < j /\ text.items[i].t = "number" /\ text.items[j].t = "number")
        => text.items[i].v <= text.items[j].v

\* C13: after any cleanup pass (a handler that has run checkRateLimit or
\* recordSubmission) the stored log is an array sorted ascending, oldest first.
C13_SortedAfterCleanup ==
    last.op \in CleanupOps => (localStorage.kind = "array" /\ SortedLog(localStorage))
\* C14: checkRateLimit called twice at the same time, with nothing called in
\* between, returns the same decision (allowed, remaining, resetTime) both
\* times, and the second call leaves the stored text as the first left it.
C14_EvaluateTwice ==
    [][ (call.op = "checkRateLimit" /\ call'.op = "checkRateLimit" /\ clock' = clock)
        => /\ call'.decision = call.decision
           /\ localStorage' = localStorage ]_vars
\* The positions of a stored text's numeric entries that have not expired at
\* time now: finite numbers younger than TIME_WINDOW, and literals that parse
\* to Infinity.
UnexpiredAt(text, now) ==
    {i \in DOMAIN text.items :
        \/ text.items[i].t = "number" /\ now - text.items[i].v < TIME_WINDOW
        \/ text.items[i].t = "overflow"}

\* The tokens of text at the positions I, in their order.
Pick(text, I) == [k \in 1..Cardinality(I) |-> text.items[Kth(I, k)]]

\* C16: after checkRateLimit at time now with a working store, the stored log
\* is the pruned log: it holds no entry of age TIME_WINDOW or more, and it
\* holds the unexpired numeric entries that were stored, each as it was and
\* in the same order, and nothing else.
C16_PrunedLogStored ==
    call.op = "checkRateLimit" =>
        /\ localStorage.kind = "array"
        /\ \A i \in DOMAIN localStorage.items :
              ~(localStorage.items[i].t = "number"
                /\ call.now - localStorage.items[i].v >= TIME_WINDOW)
        /\ localStorage.items = Pick(call.stored, UnexpiredAt(call.stored, call.now))
\* C15: in every decision checkRateLimit returns, resetTime is set exactly
\* when allowed is false: with allowed = false it is a number (and truthy, as
\* the callers test it), with allowed = true it is null; and with nothing
\* stored the decision is allowed = true, remaining = MAX_SUBMISSIONS, no
\* resetTime.
C15_ResetIffDenied ==
    call.op = "checkRateLimit" =>
        /\ ~call.decision.allowed =>
              /\ call.decision.resetTime.t \in {"number", "Infinity"}
              /\ Truthy(call.decision.resetTime)
        /\ call.decision.allowed => call.decision.resetTime = Null
        /\ (call.stored.kind = "absent" \/ call.stored = ArrayText(<<>>))
              => call.decision = [allowed |-> TRUE, remaining |-> MAX_SUBMISSIONS,
                                  resetTime |-> Null]

\* checkRateLimit has refused, with a finite resetTime.
C15_Witness ==
    /\ call.op = "checkRateLimit"
    /\ ~call.decision.allowed
    /\ call.decision.resetTime.t = "number"
\* The remaining count checkRateLimit reports for a stored text at time now,
\* with a working store.
RemainingFor(text, now) == checkRateLimit(text, now, TRUE, TRUE).decision.remaining

\* C17: after recordSubmission at time now with a working store, the stored
\* log is the pruned previous log (its unexpired numeric entries, as they
\* were and in order) followed by now as the last element; so checkRateLimit
\* at the same time reports a remaining count one less than it would have
\* reported before the record, and for a log that was empty it reports
\* allowed = true, remaining = MAX_SUBMISSIONS - 1.
C17_RecordAppendsNow ==
    (call.op = "recordSubmission" /\ storage.readable /\ storage.writable) =>
        /\ localStorage.items =
              Append(Pick(call.stored, UnexpiredAt(call.stored, call.now)), Num(call.now))
        /\ RemainingFor(localStorage, call.now) = RemainingFor(call.stored, call.now) - 1
        /\ (call.stored.kind = "absent" \/ call.stored = ArrayText(<<>>))
              => LET d == checkRateLimit(localStorage, call.now, TRUE, TRUE).decision
                 IN  d.allowed /\ d.remaining = MAX_SUBMISSIONS - 1
\* C18: when localStorage.setItem throws during checkRateLimit or
\* recordSubmission, no exception leaves the function and the stored text
\* stays as it was; checkRateLimit still returns the decision for the entries
\* it loaded and pruned: for a readable log of numbers with n unexpired,
\* remaining = MAX_SUBMISSIONS - n and allowed = (n < MAX_SUBMISSIONS), and
\* for a store that cannot be read either, the decision for the empty log.
C18_WriteFailureSwallowed ==
    (call.op \in {"checkRateLimit", "recordSubmission"} /\ ~storage.writable) =>
        /\ ~call.threw
        /\ localStorage = call.stored
        /\ (call.op = "checkRateLimit" /\ storage.readable /\ IsNumberLog(call.stored)) =>
              LET n == Unexpired(call.stored, call.now)
              IN  /\ call.decision.remaining = MAX_SUBMISSIONS - n
                  /\ call.decision.allowed = (n < MAX_SUBMISSIONS)
        /\ (call.op = "checkRateLimit" /\ ~storage.readable) =>
              call.decision = [allowed |-> TRUE, remaining |-> MAX_SUBMISSIONS,
                               resetTime |-> Null]

\* checkRateLimit has refused while writes to the store fail, and an expired
\* entry it pruned is still stored.
C18_Witness ==
    /\ call.op = "checkRateLimit"
    /\ ~storage.writable
    /\ storage.readable
    /\ IsNumberLog(call.stored)
    /\ ~call.decision.allowed
    /\ Unexpired(localStorage, clock) < Len(localStorage.items)
\* C19: a countdown tick that finds resetTime - now <= 0 ends the session in
\* that step: checkRateLimit has run, so the stored log holds no expired
\* entry, the status text is empty, the submit button is enabled, and no
\* timer is scheduled or held, so no further tick fires. A tick that finds
\* resetTime - now > 0 leaves the timer scheduled, the store as it was and the
\* button disabled, and shows the rate-limit message.
C19_TerminalTick ==
    [][ \A t \in Tabs :
          last' = [op |-> "tick", tab |-> t] =>
            \A i \in page[t].intervals :
              clock >= i.due =>
                IF i.resetTime.t = "number" /\ i.resetTime.v - clock <= 0
                THEN /\ localStorage'.kind = "array"
                     /\ Unexpired(localStorage', clock) = Len(localStorage'.items)
                     /\ page'[t].formStatus.textContent = ""
                     /\ ~page'[t].submitBtn.disabled
                     /\ page'[t].intervals = {}
                     /\ page'[t].rateLimitCountdownInterval = 0
                ELSE /\ \E j \in page'[t].intervals : j.id = i.id
                     /\ page'[t].rateLimitCountdownInterval = i.id
                     /\ localStorage' = localStorage
                     /\ page'[t].submitBtn = page[t].submitBtn
                     /\ page'[t].submitBtn.disabled
                     /\ page'[t].formStatus.textContent = "rate-limit" ]_vars

\* The countdown's last tick has run after time passed: the session is over,
\* the button is enabled and the expired entries are gone from the store.
C19_Witness ==
    /\ last = [op |-> "tick", tab |-> "A"]
    /\ page["A"].intervals = {}
    /\ page["A"].rateLimitCountdownInterval = 0
    /\ ~page["A"].submitBtn.disabled
    /\ advances > 0
    /\ Len(localStorage.items) < MAX_SUBMISSIONS
C21_TabsRace ==
    [][ /\ Unexpired(localStorage', clock') <= MAX_SUBMISSIONS + 1
        /\ last'.op \in {"jsonOk", "jsonOkRace"}
              => Unexpired(localStorage', clock') = Unexpired(localStorage, clock) + 1 ]_vars

\* Both tabs were let through by the pre-check and both have recorded: the
\* store holds more unexpired timestamps than the limit.
C21_Witness ==
    /\ last.op = "jsonOk"
    /\ Unexpired(localStorage, clock) = MAX_SUBMISSIONS + 1
\* Nothing is stored: no entry, or the empty array.
NothingStored == localStorage.kind = "absent" \/ localStorage = ArrayText(<<>>)

\* C22: when every write to the store fails, the stored text never changes
\* and no limiter call throws, so no submit handling is aborted; and from
\* empty storage every confirmed submission ends with checkRateLimit allowing
\* the next one: no countdown is started and the submit button is enabled
\* with its normal label, however many submissions went before.
C22_FailOpen ==
    [][ /\ localStorage' = localStorage
        /\ ~checkRateLimit(localStorage, clock, storage.readable, storage.writable).threw
        /\ ~recordSubmission(localStorage, clock, storage.readable, storage.writable).threw
        /\ \A t \in Tabs :
              (NothingStored /\ last' = [op |-> "jsonOk", tab |-> t])
              => /\ checkRateLimit(localStorage', clock', storage.readable,
                                    storage.writable).decision.allowed
                 /\ page'[t].intervals = {}
                 /\ page'[t].submitBtn = [disabled |-> FALSE,
                                          textContent |-> "Request Quote"] ]_vars

\* Two submissions have been confirmed at different times on a store that
\* started empty and rejects writes, and the form is open for the next.
C22_Witness ==
    /\ NothingStored
    /\ ~storage.writable
    /\ storage.readable
    /\ last = [op |-> "jsonOk", tab |-> "A"]
    /\ Cardinality(page["A"].timeouts) >= 2
    /\ ~page["A"].submitBtn.disabled
\* C23: for a remaining time ms with 0 < ms <= TIME_WINDOW, formatTimeRemaining
\* gives minutes = floor(ms / 60000) and seconds = floor((ms mod 60000) / 1000),
\* so 0 <= seconds <= 59 and
\* minutes * 60000 + seconds * 1000 <= ms < minutes * 60000 + (seconds + 1) * 1000.
C23_MinutesSeconds ==
    call.op = "formatTimeRemaining" =>
        LET ms == call.arg[1]
            minutes == call.ret[1].minutes
            seconds == call.ret[1].seconds
        IN  /\ minutes >= 0
            /\ minutes * 60000 <= ms /\ ms < (minutes + 1) * 60000
            /\ seconds >= 0 /\ seconds <= 59
            /\ minutes * 60000 + seconds * 1000 <= ms
            /\ ms < minutes * 60000 + (seconds + 1) * 1000

\* The text for one millisecond less than the whole window: 59m 59s.
C23_Witness ==
    /\ call.op = "formatTimeRemaining"
    /\ call.arg = <<TIME_WINDOW - 1>>
    /\ call.ret = <<[minutes |-> 59, seconds |-> 59]>>
Enabled == [disabled |-> FALSE, textContent |-> "Request Quote"]

\* A countdown runs on page p: a timer is scheduled and it is the one
\* rateLimitCountdownInterval holds.
Counting(p) == \E i \in p.intervals : i.id = p.rateLimitCountdownInterval

\* C24: in one tab, when a request fails (fetch rejects, the status is not ok,
\* the body cannot be read), nothing is recorded and the finally block's check
\* allows: the handler ends with no countdown timer scheduled and the submit
\* button enabled with its normal label.
C24_FailureReenables ==
    [][ \A t \in Tabs :
          (last'.op \in Failures /\ last'.tab = t)
          => /\ Unexpired(localStorage', clock') = Unexpired(localStorage, clock)
             /\ checkRateLimit(localStorage', clock', storage.readable,
                                storage.writable).decision.allowed
             /\ page'[t].intervals = {}
             /\ page'[t].rateLimitCountdownInterval = 0
             /\ page'[t].submitBtn = Enabled ]_vars

\* A request has failed with the log one short of the limit, and the form is
\* open again.
C24_Witness ==
    /\ last = [op |-> "fetchNotOk", tab |-> "A"]
    /\ Unexpired(localStorage, clock) = MAX_SUBMISSIONS - 1
    /\ page["A"].submitBtn = Enabled
    /\ page["A"].formStatus.textContent = "error-occurred"

\* C25: the page load starts a countdown and disables the submit button, in
\* the load itself, when the stored log holds MAX_SUBMISSIONS unexpired
\* timestamps or more; with fewer it starts no countdown and leaves the
\* button enabled.
C25_LoadShowsLimit ==
    [][ \A t \in Tabs :
          last' = [op |-> "load", tab |-> t] =>
            IF Unexpired(localStorage, clock) >= MAX_SUBMISSIONS
            THEN /\ Counting(page'[t])
                 /\ page'[t].submitBtn = [disabled |-> TRUE, textContent |-> "Limit Reached"]
            ELSE /\ page'[t].intervals = {}
                 /\ page'[t].rateLimitCountdownInterval = 0
                 /\ page'[t].submitBtn = Enabled ]_vars

\* The page was loaded on a full log: the countdown runs and the button is
\* disabled, with no event handled yet.
C25_Witness ==
    /\ last = [op |-> "load", tab |-> "A"]
    /\ Unexpired(localStorage, clock) >= MAX_SUBMISSIONS
    /\ Counting(page["A"])
    /\ page["A"].submitBtn.disabled
    /\ advances = 0

\* The steps in which a submit handler that sent its request finishes.
Settled == Failures \cup {"jsonOk"}

\* C26: when the handler of a submission that sent its request finishes, by
\* success, by a status that is not ok or by a rejection, the submit button is
\* no longer 'Sending...': it is enabled with its normal label, or disabled
\* as 'Limit Reached' with a countdown running.
C26_LeavesSending ==
    [][ \A t \in Tabs :
          (last'.op \in Settled /\ last'.tab = t)
          => \/ page'[t].submitBtn = Enabled /\ ~Counting(page'[t])
             \/ /\ page'[t].submitBtn = [disabled |-> TRUE, textContent |-> "Limit Reached"]
                /\ Counting(page'[t]) ]_vars

\* The body of an ok response could not be read: the handler has finished and
\* the button is back to normal.
C26_Witness ==
    /\ last = [op |-> "jsonReject", tab |-> "A"]
    /\ page["A"].submitBtn = Enabled
    /\ page["A"].fetching + page["A"].reading = 0

\* C27: with submit events delivered only while the submit button is enabled,
\* a tab never has two requests in flight, and while one is in flight the
\* button is disabled as 'Sending...', whatever timer callbacks run meanwhile.
C27_OneInFlight ==
    \A t \in Tabs :
        /\ page[t].fetching + page[t].reading <= 1
        /\ page[t].fetching + page[t].reading = 1
              => page[t].submitBtn = [disabled |-> TRUE, textContent |-> "Sending..."]

\* A request is in flight, time has passed since it was sent and a status
\* timeout has run meanwhile.
C27_Witness ==
    /\ page["A"].reading = 1
    /\ page["A"].submitBtn.disabled
    /\ last.op = "statusTimeout"
\* A form whose four fields pass validation: name, email and project_type
\* are not blank and match their patterns, the message is not blank and its
\* length is from MIN_LENGTH to MAX_LENGTH.
AllFieldsPass(form) ==
    /\ \A f \in Fields \ {"message"} : form[f].trimmed > 0 /\ form[f].matches
    /\ form["message"].trimmed > 0
    /\ form["message"].length >= MIN_LENGTH
    /\ form["message"].length <= MAX_LENGTH

\* C28: a submit event sends a request only when the pre-check allowed (fewer
\* than MAX_SUBMISSIONS unexpired timestamps stored) and all four fields
\* passed validation; a submit event that the pre-check allows and validation
\* rejects sends no request, records nothing, starts no countdown, leaves the
\* submit button enabled and shows the validation message.
C28_RequestOnlyIfValid ==
    [][ \A t \in Tabs :
          (last' = [op |-> "submit", tab |-> t] /\ call'.op = "validateForm") =>
            LET form == call'.arg[1]
                allowed == Unexpired(localStorage, clock) < MAX_SUBMISSIONS
                sent == page'[t].fetching > page[t].fetching
            IN  /\ sent => (allowed /\ AllFieldsPass(form))
                /\ (allowed /\ ~AllFieldsPass(form)) =>
                      /\ ~sent
                      /\ page'[t].reading = page[t].reading
                      /\ Unexpired(localStorage', clock') = Unexpired(localStorage, clock)
                      /\ page'[t].intervals = {}
                      /\ page'[t].submitBtn = Enabled
                      /\ page'[t].formStatus.textContent = "correct-errors" ]_vars

\* A submit event was rejected by validation for its name alone, with room in
\* the log: nothing was sent and the button is enabled.
C28_Witness ==
    /\ last = [op |-> "submit", tab |-> "A"]
    /\ call.op = "validateForm"
    /\ ~call.arg[1]["name"].matches
    /\ validateField("message", call.arg[1]["message"])
    /\ Unexpired(localStorage, clock) < MAX_SUBMISSIONS
    /\ page["A"].fetching = 0
    /\ page["A"].submitBtn = Enabled
    /\ page["A"].formStatus.textContent = "correct-errors"
\* C29: between handlers, whenever a countdown timer is scheduled on a page
\* its submit button is disabled.
C29_CountingDisabled ==
    \A t \in Tabs : page[t].intervals # {} => page[t].submitBtn.disabled

\* A tick has run and left the countdown running with the button disabled.
C29_Witness ==
    /\ last = [op |-> "tick", tab |-> "A"]
    /\ Counting(page["A"])
    /\ page["A"].submitBtn = [disabled |-> TRUE, textContent |-> "Limit Reached"]

\* C30: whenever a tick ends a countdown by expiry and enables the submit
\* button, checkRateLimit allows at that moment: fewer than MAX_SUBMISSIONS
\* unexpired timestamps are stored.
C30_ExpiryMeansAllowed ==
    [][ \A t \in Tabs :
          ( /\ last' = [op |-> "tick", tab |-> t]
            /\ page[t].intervals # {}
            /\ page'[t].intervals = {}
            /\ ~page'[t].submitBtn.disabled )
          => /\ Unexpired(localStorage', clock') < MAX_SUBMISSIONS
             /\ checkRateLimit(localStorage', clock', storage.readable,
                                storage.writable).decision.allowed ]_vars
\* The status area shows the rate-limit message with the error styling.
ShowsRateLimit(p) ==
    p.formStatus = [textContent |-> "rate-limit", className |-> "form-status error"]

\* C31: between handlers, while the countdown timer held in
\* rateLimitCountdownInterval is scheduled and its reset time has not come,
\* the status area shows the rate-limit message with the error styling.
C31_MessageWhileCounting ==
    \A t \in Tabs : \A i \in page[t].intervals :
        (i.id = page[t].rateLimitCountdownInterval /\ ~CountdownOver(i.resetTime, clock))
        => ShowsRateLimit(page[t])
\* C32: when the submit handler finishes after response.json() resolved and
\* no countdown was started, the status area shows the thank-you message with
\* the success styling.
C32_ThankYouShown ==
    [][ \A t \in Tabs :
          (last' = [op |-> "jsonOk", tab |-> t] /\ ~Counting(page'[t]))
          => page'[t].formStatus = [textContent |-> "thank-you",
                                    className |-> "form-status success"] ]_vars
\* C33: for a stored log of finite numbers, every resetTime checkRateLimit
\* returns with allowed = false is a number with
\* now < resetTime <= now + TIME_WINDOW.
C33_ResetWithinWindow ==
    (call.op = "checkRateLimit" /\ IsFiniteLog(call.stored) /\ ~call.decision.allowed) =>
        /\ call.decision.resetTime.t = "number"
        /\ call.now < call.decision.resetTime.v
        /\ call.decision.resetTime.v <= call.now + TIME_WINDOW
\* C34: every message placed in a request body has between MIN_LENGTH and
\* MAX_LENGTH characters.
C34_SentLength ==
    call.op = "fetch" =>
        /\ call.ret[1]["message"].length >= MIN_LENGTH
        /\ call.ret[1]["message"].length <= MAX_LENGTH
\* The menu's five flags are all set.
MenuOpen(m) ==
    /\ m.navHamburger.active
    /\ m.navHamburger.ariaExpanded = "true"
    /\ m.navLinks.active
    /\ m.navMobileOverlay.active
    /\ m.body.menuOpen

\* The menu's five flags are all cleared.
MenuClosed(m) ==
    /\ ~m.navHamburger.active
    /\ m.navHamburger.ariaExpanded # "true"
    /\ ~m.navLinks.active
    /\ ~m.navMobileOverlay.active
    /\ ~m.body.menuOpen

\* C35: the menu's five flags are always all set or all cleared; a hamburger
\* click flips them, and an overlay click, a link click, an Escape press and
\* a resize to DESKTOP_WIDTH or wider each leave them cleared.
C35_MenuFlagsAgree ==
    /\ [](\A t \in Tabs : MenuOpen(page[t].menu) \/ MenuClosed(page[t].menu))
    /\ [][ \A t \in Tabs :
            /\ last' = [op |-> "hamburgerClick", tab |-> t] =>
                  /\ MenuOpen(page[t].menu) => MenuClosed(page'[t].menu)
                  /\ MenuClosed(page[t].menu) => MenuOpen(page'[t].menu)
            /\ ( \/ last' = [op |-> "overlayClick", tab |-> t]
                 \/ last' = [op |-> "linkClick", tab |-> t]
                 \/ last' = [op |-> "keydown", tab |-> t] /\ call'.arg = <<"Escape">>
                 \/ last' = [op |-> "resize", tab |-> t] /\ page'[t].innerWidth >= DESKTOP_WIDTH )
                => MenuClosed(page'[t].menu) ]_vars

\* The menu is open after a hamburger click in a narrow window.
C35_Witness ==
    /\ last = [op |-> "hamburgerClick", tab |-> "A"]
    /\ page["A"].innerWidth < DESKTOP_WIDTH
    /\ MenuOpen(page["A"].menu)
====
